---- MODULE Spec2Model ----
(***************************************************************************)
(* Model of the Messager publish/subscribe registry (src/messager.py).     *)
(* Threads call the registry; every `with self._LOCK` block is an acquire  *)
(* step followed by a body-and-release step; handlers run outside the lock *)
(* and may themselves call the registry (a stack of call frames).          *)
(***************************************************************************)
EXTENDS Integers, Sequences, FiniteSets, TLC

\* ------------------------------------------------------------------------
\* Bounds of the model
\* ------------------------------------------------------------------------
\* registry calls (other than constructions) made in one behaviour
MaxCalls == 3
\* call frames on one thread's stack (1 = no call from inside a handler)
MaxDepth == 2
\* registry objects that can be allocated
MaxInstances == 2

\* ------------------------------------------------------------------------
\* The universe: threads, tokens, message values, handlers, receivers
\* ------------------------------------------------------------------------
None == "None"
\* _INSTANCE = None: no registry object
NoRef == 0
Empty == "inspect.Parameter.empty"

Threads == {"th1", "th2"}
InstIds == 1..MaxInstances

\* None is the default token of subscribe/publish/batch_publish
Tokens == {None, "T1"}

\* "a", "b" are str values, "n" an int, "t" a bool
Messages == {"a", "b", "n", "t"}

\* type(message)
TypeOf(m) == CASE m = "n" -> "int" [] m = "t" -> "bool" [] OTHER -> "str"

\* the proper base classes of a type (object left out): bool derives from int
Bases(ty) == IF ty = "bool" THEN {"int"} ELSE {}

\* The message lists handed to batch_publish
Batches == {<<>>, <<"b", "a">>, <<"a", "n", "b">>, <<"n", "t">>}

Receivers == {"r"}

\* receiver.receive: a bound method; two accesses compare equal
ReceiveOf(r) == "r.receive"

\* receiver.token if hasattr(receiver, "token") else None
ReceiverToken(r) == IF r = "r" THEN "T1" ELSE None

\* f, g, k, r.receive are well-formed handlers; noarg (no parameter) and noann
\* (one parameter, no annotation) are not; kwonly is `def kwonly(*, m: str)`
Callables == {"f", "g", "k", "r.receive", "noarg", "noann", "kwonly"}

\* inspect.signature(subscriber).parameters, as the list of annotations
Parameters(h) ==
  CASE h = "f" -> <<"str">>
    [] h = "g" -> <<"str">>
    [] h = "r.receive" -> <<"str">>
    [] h = "kwonly" -> <<"str">>
    [] h = "k" -> <<"int">>
    [] h = "noarg" -> <<>>
    [] OTHER -> <<Empty>>

\* subscriber(message) binds its one positional argument; a keyword-only
\* parameter does not take it and the call raises TypeError
AcceptsPositional(h) == h # "kwonly"

\* asyncio.iscoroutinefunction(subscriber)
IsCoroutineFunction(h) == h = "g"

\* _get_parameter_type: the annotation of the single parameter, or ValueError
GetParameterType(h) ==
  IF Len(Parameters(h)) # 1
    THEN [ok |-> FALSE, type |-> None]
    ELSE IF Parameters(h)[1] = Empty
      THEN [ok |-> FALSE, type |-> None]
      ELSE [ok |-> TRUE, type |-> Parameters(h)[1]]

\* ------------------------------------------------------------------------
\* Dictionaries (dict of dict of set)
\* ------------------------------------------------------------------------
EmptyDict == [x \in {} |-> {}]

DictSet(d, key, v) == [x \in (DOMAIN d) \cup {key} |-> IF x = key THEN v ELSE d[x]]

\* faulty variant of Snapshot: isinstance-style routing, the buckets of the
\* type's base classes are read too
SnapshotWithBases(d, ty, tok) ==
  UNION {IF x \in DOMAIN d
           THEN IF tok \in DOMAIN d[x] THEN d[x][tok] ELSE {}
           ELSE {} : x \in {ty} \cup Bases(ty)}

\* self.subscribers.get(message_type, {}).get(token, set()).copy()
Snapshot(d, ty, tok) ==
  IF ty \in DOMAIN d
    THEN IF tok \in DOMAIN d[ty] THEN d[ty][tok] ELSE {}
    ELSE {}

\* every handler that sits in some bucket of d
InSomeBucket(d) ==
  {h \in Callables : \E ty \in DOMAIN d : \E tk \in DOMAIN d[ty] : h \in d[ty][tk]}

\* the handlers that sit in a bucket of a token other than tok
UnderOtherToken(d, tok) ==
  {h \in Callables :
     \E ty \in DOMAIN d : \E tk \in DOMAIN d[ty] : tk # tok /\ h \in d[ty][tk]}

\* ------------------------------------------------------------------------
\* batch_publish: grouping by type, in order of first appearance
\* ------------------------------------------------------------------------
RECURSIVE GroupTypes(_)
GroupTypes(msgs) ==
  IF msgs = <<>> THEN <<>>
  ELSE LET front == SubSeq(msgs, 1, Len(msgs) - 1)
           last == TypeOf(msgs[Len(msgs)])
           sofar == GroupTypes(front)
       IN IF \E i \in 1..Len(sofar) : sofar[i] = last
            THEN sofar
            ELSE Append(sofar, last)

IsOfType(m, ty) == TypeOf(m) = ty

\* message_groups[ty]
GroupMsgs(msgs, ty) == SelectSeq(msgs, LAMBDA m : IsOfType(m, ty))

\* ------------------------------------------------------------------------
\* State
\* ------------------------------------------------------------------------
VARIABLES
  workload,       \* the application driving the registry in this behaviour
  singleton,      \* Messager._INSTANCE
  instances,      \* the registry objects allocated so far
  initialized,    \* the objects that have the attribute "subscribers"
  subscribers,    \* per object: type -> token -> set of handlers
  subscriberSet,  \* per object: the identity set
  lock,           \* Messager._LOCK, a reentrant lock: owner and depth
  ref,            \* per thread: the reference its last construction returned
  stack,          \* per thread: the call frames, innermost last
  calls,          \* registry calls started so far
  registered,     \* history: <<handler, token>> added and not unsubscribed
  removed         \* history: <<handler, token>> ended by unsubscribe, the
                  \* handler not subscribed again since

vars == <<workload, singleton, instances, initialized, subscribers, subscriberSet, lock,
          ref, stack, calls, registered, removed>>

Frame(op, self, arg, tok, msgs) ==
  [op |-> op, pc |-> "lock", self |-> self, arg |-> arg, tok |-> tok,
   msgs |-> msgs, gi |-> 1, snap |-> {}, snapAll |-> {}, cur |-> None,
   mi |-> 1, log |-> <<>>, tasks |-> <<>>, exc |-> None, hraised |-> FALSE,
   need |-> {}, foreign |-> {}, banned |-> removed, wasSub |-> FALSE,
   changed |-> FALSE]

Depth(t) == Len(stack[t])
Top(t) == stack[t][Len(stack[t])]
SetTop(t, fr) == [stack EXCEPT ![t] = [@ EXCEPT ![Len(@)] = fr]]
Push(t, fr) == [stack EXCEPT ![t] = Append(@, fr)]

Finished(fr) == fr.pc \in {"returned", "raised"}

\* the thread is inside loop.run_until_complete (publish driving a coroutine)
RunningLoop(t) ==
  \E i \in 1..Len(stack[t]) :
    /\ stack[t][i].op = "publish"
    /\ stack[t][i].pc \in {"running", "awaiting"}
    /\ IsCoroutineFunction(stack[t][i].cur)

\* The applications modelled: "seq" is one thread using every handler and
\* message of the universe; "conc" is all threads sharing a few of them
Workloads == {"seq", "conc"}

Active == IF workload = "seq" THEN {"th1"} ELSE Threads
AppCallables == IF workload = "seq" THEN Callables ELSE {"f"}
AppMessages == IF workload = "seq" THEN Messages ELSE {"a"}
AppBatches == IF workload = "seq" THEN Batches ELSE {<<"b", "a">>}

Init ==
  /\ workload \in Workloads
  /\ singleton = NoRef
  /\ instances = {}
  /\ initialized = {}
  /\ subscribers = [i \in InstIds |-> EmptyDict]
  /\ subscriberSet = [i \in InstIds |-> {}]
  /\ lock = [owner |-> None, count |-> 0]
  /\ ref = [t \in Threads |-> NoRef]
  /\ stack = [t \in Threads |-> <<>>]
  /\ calls = 0
  /\ registered = {}
  /\ removed = {}

\* ------------------------------------------------------------------------
\* The lock
\* ------------------------------------------------------------------------
Acquired(t) == [owner |-> t, count |-> lock.count + 1]
Released == IF lock.count = 1
              THEN [owner |-> None, count |-> 0]
              ELSE [owner |-> lock.owner, count |-> lock.count - 1]

\* `with self._LOCK:` entering: blocks while another thread owns the lock
Acquire(t) ==
  /\ Depth(t) > 0
  /\ Top(t).pc \in {"lock", "initlock"}
  /\ lock.owner \in {None, t}
  /\ lock' = Acquired(t)
  /\ stack' = SetTop(t, [Top(t) EXCEPT !.pc = IF @ = "lock" THEN "body" ELSE "initbody"])
  /\ UNCHANGED <<workload, singleton, instances, initialized, subscribers, subscriberSet,
                 ref, calls, registered, removed>>

\* ------------------------------------------------------------------------
\* Starting a call: from the application (empty stack) or from inside a
\* running handler (the handler's frame then waits for the call)
\* ------------------------------------------------------------------------
CanCall(t) ==
  /\ calls < MaxCalls
  /\ ref[t] # NoRef
  /\ \/ Depth(t) = 0
     \/ Depth(t) > 0 /\ Depth(t) < MaxDepth /\ Top(t).pc = "running"

Enter(t, fr) ==
  /\ stack' = [stack EXCEPT ![t] =
                 Append(IF Len(@) = 0 THEN @ ELSE [@ EXCEPT ![Len(@)].pc = "awaiting"], fr)]
  /\ calls' = calls + 1
  /\ UNCHANGED <<workload, singleton, instances, initialized, subscribers, subscriberSet,
                 lock, ref, registered, removed>>

CallSubscribe(t, h, tok) ==
  /\ CanCall(t)
  /\ Enter(t, Frame("subscribe", ref[t], h, tok, <<>>))

CallSubscribeReceiver(t, r) ==
  /\ CanCall(t)
  /\ Enter(t, Frame("subscribeReceiver", ref[t], r, None, <<>>))

CallUnsubscribe(t, h) ==
  /\ CanCall(t)
  /\ Enter(t, Frame("unsubscribe", ref[t], h, None, <<>>))

CallUnsubscribeReceiver(t, r) ==
  /\ CanCall(t)
  /\ Enter(t, Frame("unsubscribeReceiver", ref[t], r, None, <<>>))

CallPublish(t, m, tok) ==
  /\ CanCall(t)
  /\ Enter(t, Frame("publish", ref[t], None, tok, <<m>>))

\* batch_publish: `if not messages: return` comes before any lock
CallBatchPublish(t, msgs, tok) ==
  /\ CanCall(t)
  /\ Enter(t, [Frame("batch_publish", ref[t], None, tok, msgs)
                 EXCEPT !.pc = IF msgs = <<>> THEN "returned" ELSE "lock"])

\* ------------------------------------------------------------------------
\* Messager(): __new__ then __init__
\* ------------------------------------------------------------------------
\* a thread constructs the registry once and keeps the reference
CallMessager(t) ==
  /\ Depth(t) = 0
  /\ ref[t] = NoRef
  /\ stack' = Push(t, Frame("Messager", NoRef, None, None, <<>>))
  /\ UNCHANGED <<workload, singleton, instances, initialized, subscribers, subscriberSet,
                 lock, ref, calls, registered, removed>>

\* faulty variant of NeedsInstance: the check for an existing object is missing
NeedsInstanceAlways == TRUE

\* __new__: `if cls._INSTANCE is None`
NeedsInstance == singleton = NoRef

\* __new__ inside the lock: allocate the object on first use; return cls._INSTANCE
NewBody(t) ==
  /\ Depth(t) > 0
  /\ Top(t).op = "Messager"
  /\ Top(t).pc = "body"
  /\ IF NeedsInstance
       THEN /\ Cardinality(instances) < MaxInstances
            /\ singleton' = Cardinality(instances) + 1
            /\ instances' = instances \cup {singleton'}
       ELSE UNCHANGED <<singleton, instances>>
  /\ lock' = Released
  /\ stack' = SetTop(t, [Top(t) EXCEPT !.pc = "check", !.self = singleton'])
  /\ UNCHANGED <<workload, initialized, subscribers, subscriberSet, ref, calls, registered, removed>>

\* __init__: `if not hasattr(self, "subscribers")`, read without the lock
HasSubscribers(self) == self \in initialized

InitCheck(t) ==
  /\ Depth(t) > 0
  /\ Top(t).op = "Messager"
  /\ Top(t).pc = "check"
  /\ stack' = SetTop(t, [Top(t) EXCEPT
                           !.pc = IF HasSubscribers(Top(t).self) THEN "returned" ELSE "initlock"])
  /\ UNCHANGED <<workload, singleton, instances, initialized, subscribers, subscriberSet,
                 lock, ref, calls, registered, removed>>

\* __init__ inside the lock: self.subscribers = {}; self.subscriberSet = set()
InitBody(t) ==
  /\ Depth(t) > 0
  /\ Top(t).op = "Messager"
  /\ Top(t).pc = "initbody"
  /\ subscribers' = [subscribers EXCEPT ![Top(t).self] = EmptyDict]
  /\ subscriberSet' = [subscriberSet EXCEPT ![Top(t).self] = {}]
  /\ initialized' = initialized \cup {Top(t).self}
  /\ lock' = Released
  /\ stack' = SetTop(t, [Top(t) EXCEPT !.pc = "returned"])
  /\ UNCHANGED <<workload, singleton, instances, ref, calls, registered, removed>>

\* ------------------------------------------------------------------------
\* subscribe / subscribeReceiver
\* ------------------------------------------------------------------------
\* the bucket of (ty, tok) created when missing, then h added to it
AddToBucket(d, ty, tok, h) ==
  LET d1 == IF ty \in DOMAIN d THEN d ELSE DictSet(d, ty, EmptyDict)
      inner == IF tok \in DOMAIN d1[ty] THEN d1[ty] ELSE DictSet(d1[ty], tok, {})
  IN DictSet(d1, ty, DictSet(inner, tok, inner[tok] \cup {h}))

\* the pairs of a set that are not about handler h
Without(pairs, h) == {p \in pairs : p[1] # h}

\* a handler subscribed again may be invoked again: lift it from the frames' bans
Unban(stk, h) ==
  [t \in Threads |->
     [i \in 1..Len(stk[t]) |-> [stk[t][i] EXCEPT !.banned = Without(@, h)]]]

\* faulty variant of SubscribeCommon: the lock is taken and released by hand and
\* the error path raises before the release
SubscribeCommonLeaks(t, ident, h, tok) ==
  LET fr == Top(t)
      d == subscribers[fr.self]
      pt == GetParameterType(h)
      was == h \in InSomeBucket(d)
  IN /\ IF ident \in subscriberSet[fr.self] \/ ~pt.ok
          THEN /\ stack' = SetTop(t, [fr EXCEPT !.pc = "raised", !.exc = "ValueError",
                                                !.wasSub = was])
               /\ UNCHANGED <<lock, subscribers, subscriberSet, registered, removed>>
          ELSE /\ lock' = Released
               /\ subscribers' = [subscribers EXCEPT ![fr.self] = AddToBucket(d, pt.type, tok, h)]
               /\ subscriberSet' = [subscriberSet EXCEPT ![fr.self] = @ \cup {ident}]
               /\ registered' = registered \cup {<<h, tok>>}
               /\ removed' = Without(removed, h)
               /\ stack' = Unban(SetTop(t, [fr EXCEPT !.pc = "returned", !.wasSub = was,
                                                      !.changed = TRUE]), h)
     /\ UNCHANGED <<workload, singleton, instances, initialized, ref, calls>>

\* subscribe inside the lock. ident is what goes to the identity set, h to the bucket
SubscribeCommon(t, ident, h, tok) ==
  LET fr == Top(t)
      d == subscribers[fr.self]
      pt == GetParameterType(h)
      was == h \in InSomeBucket(d)
  IN /\ lock' = Released
     /\ IF ident \in subscriberSet[fr.self] \/ ~pt.ok
          THEN /\ stack' = SetTop(t, [fr EXCEPT !.pc = "raised", !.exc = "ValueError",
                                                !.wasSub = was])
               /\ UNCHANGED <<subscribers, subscriberSet, registered, removed>>
          ELSE /\ subscribers' = [subscribers EXCEPT ![fr.self] = AddToBucket(d, pt.type, tok, h)]
               /\ subscriberSet' = [subscriberSet EXCEPT ![fr.self] = @ \cup {ident}]
               /\ registered' = registered \cup {<<h, tok>>}
               /\ removed' = Without(removed, h)
               /\ stack' = Unban(SetTop(t, [fr EXCEPT !.pc = "returned", !.wasSub = was,
                                                      !.changed = TRUE]), h)
     /\ UNCHANGED <<workload, singleton, instances, initialized, ref, calls>>

SubscribeBody(t) ==
  /\ Depth(t) > 0
  /\ Top(t).op = "subscribe"
  /\ Top(t).pc = "body"
  /\ SubscribeCommon(t, Top(t).arg, Top(t).arg, Top(t).tok)

SubscribeReceiverBody(t) ==
  /\ Depth(t) > 0
  /\ Top(t).op = "subscribeReceiver"
  /\ Top(t).pc = "body"
  /\ SubscribeCommon(t, Top(t).arg, ReceiveOf(Top(t).arg), ReceiverToken(Top(t).arg))

\* ------------------------------------------------------------------------
\* unsubscribe / unsubscribeReceiver
\* ------------------------------------------------------------------------
\* faulty variant of RemoveFromBuckets: only the default token's bucket is cleaned
RemoveFromDefaultBucket(d, ty, h) ==
  IF ty \in DOMAIN d
    THEN [d EXCEPT ![ty] =
            [tk \in DOMAIN d[ty] |-> IF tk = None THEN d[ty][tk] \ {h} ELSE d[ty][tk]]]
    ELSE d

\* h discarded from every token bucket under ty
RemoveFromBuckets(d, ty, h) ==
  IF ty \in DOMAIN d
    THEN [d EXCEPT ![ty] = [tk \in DOMAIN d[ty] |-> d[ty][tk] \ {h}]]
    ELSE d

UnsubscribeCommon(t, ident, h) ==
  LET fr == Top(t)
      d == subscribers[fr.self]
      pt == GetParameterType(h)
      was == h \in InSomeBucket(d)
  IN /\ lock' = Released
     /\ IF ~pt.ok
          THEN /\ stack' = SetTop(t, [fr EXCEPT !.pc = "raised", !.exc = "ValueError",
                                                !.wasSub = was])
               /\ UNCHANGED <<subscribers, subscriberSet, registered, removed>>
          ELSE /\ subscribers' = [subscribers EXCEPT ![fr.self] = RemoveFromBuckets(d, pt.type, h)]
               /\ subscriberSet' = [subscriberSet EXCEPT ![fr.self] = @ \ {ident}]
               /\ registered' = Without(registered, h)
               /\ removed' = removed \cup (registered \ Without(registered, h))
               /\ stack' = SetTop(t, [fr EXCEPT !.pc = "returned", !.wasSub = was,
                                        !.changed = (subscribers' # subscribers
                                                     \/ subscriberSet' # subscriberSet)])
     /\ UNCHANGED <<workload, singleton, instances, initialized, ref, calls>>

UnsubscribeBody(t) ==
  /\ Depth(t) > 0
  /\ Top(t).op = "unsubscribe"
  /\ Top(t).pc = "body"
  /\ UnsubscribeCommon(t, Top(t).arg, Top(t).arg)

UnsubscribeReceiverBody(t) ==
  /\ Depth(t) > 0
  /\ Top(t).op = "unsubscribeReceiver"
  /\ Top(t).pc = "body"
  /\ UnsubscribeCommon(t, Top(t).arg, ReceiveOf(Top(t).arg))

\* ------------------------------------------------------------------------
\* publish
\* ------------------------------------------------------------------------
\* faulty variant of PublishSnapshot: the dispatch loop sits inside the `with`
\* block, the lock is still held when the handlers are invoked
PublishSnapshotHolding(t) ==
  LET fr == Top(t)
      d == subscribers[fr.self]
      ty == TypeOf(fr.msgs[1])
      s == Snapshot(d, ty, fr.tok)
  IN /\ Depth(t) > 0
     /\ fr.op = "publish"
     /\ fr.pc = "body"
     /\ stack' = SetTop(t, [fr EXCEPT
          !.pc = "disp", !.snap = s, !.snapAll = s,
          !.foreign = UnderOtherToken(d, fr.tok),
          !.need = {h \in Callables : /\ <<h, fr.tok>> \in registered
                                      /\ GetParameterType(h).ok
                                      /\ GetParameterType(h).type = ty}])
     /\ UNCHANGED <<workload, singleton, instances, initialized, subscribers, subscriberSet,
                    lock, ref, calls, registered, removed>>

\* publish inside the lock: the snapshot of bucket (type(message), token)
PublishSnapshot(t) ==
  LET fr == Top(t)
      d == subscribers[fr.self]
      ty == TypeOf(fr.msgs[1])
      s == Snapshot(d, ty, fr.tok)
  IN /\ Depth(t) > 0
     /\ fr.op = "publish"
     /\ fr.pc = "body"
     /\ lock' = Released
     /\ stack' = SetTop(t, [fr EXCEPT
          !.pc = "disp", !.snap = s, !.snapAll = s,
          !.foreign = UnderOtherToken(d, fr.tok),
          !.need = {h \in Callables : /\ <<h, fr.tok>> \in registered
                                      /\ GetParameterType(h).ok
                                      /\ GetParameterType(h).type = ty}])
     /\ UNCHANGED <<workload, singleton, instances, initialized, subscribers, subscriberSet,
                    ref, calls, registered, removed>>

\* `for subscriber in subscribers:` outside the lock, in the set's (arbitrary)
\* order. A call that cannot bind the message raises TypeError (taken as the
\* invocation raising). A coroutine function is run on a new event loop, which
\* fails with RuntimeError when the thread is already running a loop.
PublishDispatch(t) ==
  LET fr == Top(t)
  IN /\ Depth(t) > 0
     /\ fr.op = "publish"
     /\ fr.pc = "disp"
     /\ IF fr.snap = {}
          THEN stack' = SetTop(t, [fr EXCEPT !.pc = "returned"])
          ELSE \E s \in fr.snap :
                 IF ~AcceptsPositional(s)
                   THEN stack' = SetTop(t, [fr EXCEPT !.pc = "raised", !.exc = "TypeError",
                                                      !.hraised = TRUE])
                 ELSE IF IsCoroutineFunction(s) /\ RunningLoop(t)
                   THEN stack' = SetTop(t, [fr EXCEPT !.pc = "raised", !.exc = "RuntimeError"])
                   ELSE stack' = SetTop(t, [fr EXCEPT
                          !.pc = "running", !.cur = s, !.snap = @ \ {s},
                          !.log = Append(@, <<s, fr.msgs[1]>>)])
     /\ UNCHANGED <<workload, singleton, instances, initialized, subscribers, subscriberSet,
                    lock, ref, calls, registered, removed>>

\* ------------------------------------------------------------------------
\* batch_publish
\* ------------------------------------------------------------------------
\* the type and the messages of the group being delivered
GroupType(fr) == GroupTypes(fr.msgs)[fr.gi]
Group(fr) == GroupMsgs(fr.msgs, GroupType(fr))

\* batch_publish inside the lock: the snapshot for the current type group
BatchSnapshot(t) ==
  LET fr == Top(t)
      d == subscribers[fr.self]
      s == Snapshot(d, GroupType(fr), fr.tok)
  IN /\ Depth(t) > 0
     /\ fr.op = "batch_publish"
     /\ fr.pc = "body"
     /\ lock' = Released
     /\ stack' = SetTop(t, [fr EXCEPT
          !.pc = "disp", !.snap = s, !.snapAll = s, !.cur = None, !.mi = 1,
          !.foreign = UnderOtherToken(d, fr.tok), !.need = @ \cup s])
     /\ UNCHANGED <<workload, singleton, instances, initialized, subscribers, subscriberSet,
                    ref, calls, registered, removed>>

\* the position after message i of handler s has been dealt with
Advance(fr, s, i) ==
  [fr EXCEPT !.snap = @ \ {s}, !.mi = i + 1,
             !.cur = IF i < Len(Group(fr)) THEN s ELSE None]

\* `for subscriber in subscribers: for msg in msgs:` outside the lock. A
\* coroutine function is handed to asyncio.create_task, which fails with
\* RuntimeError when the thread runs no event loop.
BatchDispatch(t) ==
  LET fr == Top(t)
  IN /\ Depth(t) > 0
     /\ fr.op = "batch_publish"
     /\ fr.pc = "disp"
     /\ IF fr.cur = None /\ fr.snap = {}
          THEN IF fr.gi = Len(GroupTypes(fr.msgs))
                 THEN stack' = SetTop(t, [fr EXCEPT !.pc = "returned"])
                 ELSE stack' = SetTop(t, [fr EXCEPT !.pc = "lock", !.gi = @ + 1])
          ELSE \E s \in (IF fr.cur # None THEN {fr.cur} ELSE fr.snap) :
                 LET i == IF fr.cur # None THEN fr.mi ELSE 1
                 IN IF ~AcceptsPositional(s)
                      THEN stack' = SetTop(t, [fr EXCEPT !.pc = "raised", !.exc = "TypeError",
                                                         !.hraised = TRUE])
                    ELSE IF IsCoroutineFunction(s)
                      THEN IF RunningLoop(t)
                             THEN stack' = SetTop(t, [Advance(fr, s, i) EXCEPT
                                             !.tasks = Append(@, <<s, Group(fr)[i]>>)])
                             ELSE stack' = SetTop(t, [fr EXCEPT !.pc = "raised",
                                                                !.exc = "RuntimeError"])
                      ELSE stack' = SetTop(t, [fr EXCEPT
                             !.pc = "running", !.cur = s, !.mi = i, !.snap = @ \ {s},
                             !.log = Append(@, <<s, Group(fr)[i]>>)])
     /\ UNCHANGED <<workload, singleton, instances, initialized, subscribers, subscriberSet,
                    lock, ref, calls, registered, removed>>

\* ------------------------------------------------------------------------
\* Handlers (application code): a running handler returns, raises, or calls
\* the registry (the Call actions above)
\* ------------------------------------------------------------------------
HandlerReturn(t) ==
  LET fr == Top(t)
  IN /\ Depth(t) > 0
     /\ fr.pc = "running"
     /\ stack' = SetTop(t, IF fr.op = "publish"
                             THEN [fr EXCEPT !.pc = "disp", !.cur = None]
                             ELSE [Advance(fr, fr.cur, fr.mi) EXCEPT !.pc = "disp"])
     /\ UNCHANGED <<workload, singleton, instances, initialized, subscribers, subscriberSet,
                    lock, ref, calls, registered, removed>>

\* faulty variant of HandlerRaise: the dispatch loop catches the exception,
\* notes it and goes on with the next invocation
HandlerRaiseSwallowed(t) ==
  LET fr == Top(t)
  IN /\ Depth(t) > 0
     /\ fr.pc = "running"
     /\ stack' = SetTop(t, IF fr.op = "publish"
                             THEN [fr EXCEPT !.pc = "disp", !.cur = None, !.hraised = TRUE]
                             ELSE [Advance(fr, fr.cur, fr.mi) EXCEPT !.pc = "disp",
                                                                     !.hraised = TRUE])
     /\ UNCHANGED <<workload, singleton, instances, initialized, subscribers, subscriberSet,
                    lock, ref, calls, registered, removed>>

\* the exception leaves publish / batch_publish: no except clause catches it
HandlerRaise(t) ==
  LET fr == Top(t)
  IN /\ Depth(t) > 0
     /\ fr.pc = "running"
     /\ stack' = SetTop(t, [fr EXCEPT !.pc = "raised", !.exc = "HandlerError",
                                      !.hraised = TRUE])
     /\ UNCHANGED <<workload, singleton, instances, initialized, subscribers, subscriberSet,
                    lock, ref, calls, registered, removed>>

\* ------------------------------------------------------------------------
\* A finished call goes back to its caller: the application, or the handler
\* that made it (an exception of the call leaves the handler too)
\* ------------------------------------------------------------------------
Return(t) ==
  LET fr == Top(t)
      n == Len(stack[t])
  IN /\ n > 0
     /\ Finished(fr)
     /\ IF n = 1
          THEN stack' = [stack EXCEPT ![t] = <<>>]
          ELSE stack' = [stack EXCEPT ![t] =
                 Append(SubSeq(@, 1, n - 2),
                        IF fr.pc = "returned"
                          THEN [@[n - 1] EXCEPT !.pc = "running"]
                          ELSE [@[n - 1] EXCEPT !.pc = "raised", !.exc = fr.exc,
                                                !.hraised = TRUE])]
     /\ ref' = IF fr.op = "Messager" THEN [ref EXCEPT ![t] = fr.self] ELSE ref
     /\ UNCHANGED <<workload, singleton, instances, initialized, subscribers, subscriberSet,
                    lock, calls, registered, removed>>

\* ------------------------------------------------------------------------
\* Specification
\* ------------------------------------------------------------------------
Next ==
  \/ \E t \in Active : CallMessager(t)
  \/ \E t \in Active : Acquire(t)
  \/ \E t \in Active : NewBody(t)
  \/ \E t \in Active : InitCheck(t)
  \/ \E t \in Active : InitBody(t)
  \/ \E t \in Active, h \in AppCallables, tok \in Tokens : CallSubscribe(t, h, tok)
  \/ \E t \in Active, r \in Receivers : CallSubscribeReceiver(t, r)
  \/ \E t \in Active, h \in AppCallables : CallUnsubscribe(t, h)
  \/ \E t \in Active, r \in Receivers : CallUnsubscribeReceiver(t, r)
  \/ \E t \in Active, m \in AppMessages, tok \in Tokens : CallPublish(t, m, tok)
  \/ \E t \in Active, msgs \in AppBatches, tok \in Tokens : CallBatchPublish(t, msgs, tok)
  \/ \E t \in Active : SubscribeBody(t)
  \/ \E t \in Active : SubscribeReceiverBody(t)
  \/ \E t \in Active : UnsubscribeBody(t)
  \/ \E t \in Active : UnsubscribeReceiverBody(t)
  \/ \E t \in Active : PublishSnapshot(t)
  \/ \E t \in Active : PublishDispatch(t)
  \/ \E t \in Active : BatchSnapshot(t)
  \/ \E t \in Active : BatchDispatch(t)
  \/ \E t \in Active : HandlerReturn(t)
  \/ \E t \in Active : HandlerRaise(t)
  \/ \E t \in Active : Return(t)

Spec == Init /\ [][Next]_vars

\* the steps of a call once it has been made (those that do not wait), and
\* the end of a handler's body
Progress(t) ==
  \/ NewBody(t) \/ InitCheck(t) \/ InitBody(t)
  \/ SubscribeBody(t) \/ SubscribeReceiverBody(t)
  \/ UnsubscribeBody(t) \/ UnsubscribeReceiverBody(t)
  \/ PublishSnapshot(t) \/ PublishDispatch(t)
  \/ BatchSnapshot(t) \/ BatchDispatch(t)
  \/ HandlerReturn(t) \/ HandlerRaise(t)
  \/ Return(t)

\* Fair scheduling: a thread that can go on does go on, every handler body
\* ends, and a thread that finds the lock free again and again gets it
Fairness ==
  \A t \in Threads : WF_vars(Progress(t)) /\ SF_vars(Acquire(t))

FairSpec == Spec /\ Fairness

TypeOK ==
  /\ singleton \in InstIds \cup {NoRef}
  /\ lock.count \in 0..1
  /\ calls \in 0..MaxCalls

\* ------------------------------------------------------------------------
\* Properties
\* ------------------------------------------------------------------------
\* every call frame of every thread
Frames == UNION {{stack[t][i] : i \in 1..Len(stack[t])} : t \in Threads}

\* the arguments a log (of <<handler, message>>) records for handler h, in order
ArgsOf(log, h) ==
  LET sel == SelectSeq(log, LAMBDA e : e[1] = h)
  IN [k \in 1..Len(sel) |-> sel[k][2]]

Dispatching(fr) == fr.op \in {"publish", "batch_publish"}

\* the call ended, by return or by an exception that no handler raised
EndedWithoutHandlerError(fr) == Finished(fr) /\ ~fr.hraised

\* C1: a publish(m, t) call in which no handler raises invokes every handler
\* that was subscribed under t with declared type type(m), and not unsubscribed
\* since, exactly once with m.
C1_PublishInvokesOnce ==
  \A fr \in Frames :
    (fr.op = "publish" /\ EndedWithoutHandlerError(fr))
      => \A h \in fr.need : ArgsOf(fr.log, h) = <<fr.msgs[1]>>

\* C2: a handler registered under token t is not invoked by a publish or
\* batch_publish for another token.
C2_TokenIsolation ==
  \A fr \in Frames :
    (Dispatching(fr) /\ fr.pc \in {"running", "awaiting"}) => fr.cur \notin fr.foreign

\* C3: subscribe(h, t') of a handler that is currently subscribed fails and
\* leaves the store as it was.
C3_DuplicateRejected ==
  \A fr \in Frames :
    (fr.op = "subscribe" /\ Finished(fr) /\ fr.wasSub)
      => (fr.pc = "raised" /\ ~fr.changed)

\* C4: a handler whose subscription unsubscribe / unsubscribeReceiver ended
\* before a publish or batch_publish call started, and which was not subscribed
\* again, is not invoked (nor scheduled) by that call.
C4_NoDeliveryAfterUnsubscribe ==
  \A fr \in Frames :
    Dispatching(fr) =>
      \A p \in fr.banned :
        /\ ArgsOf(fr.log, p[1]) = <<>>
        /\ ArgsOf(fr.tasks, p[1]) = <<>>

\* C4 witness: a publish for the type and token of an ended subscription has
\* returned.
C4_Witness ==
  \E fr \in Frames :
    /\ fr.op = "publish"
    /\ fr.pc = "returned"
    /\ \E p \in fr.banned :
         /\ p[2] = fr.tok
         /\ GetParameterType(p[1]).type = TypeOf(fr.msgs[1])

\* C5: a batch_publish in which no handler raises gives every synchronous
\* handler of its snapshots exactly the messages of the handler's type, in list
\* order.
C5_BatchDeliversInOrder ==
  \A fr \in Frames :
    (fr.op = "batch_publish" /\ EndedWithoutHandlerError(fr))
      => \A h \in fr.need :
           ~IsCoroutineFunction(h)
             => ArgsOf(fr.log, h) = GroupMsgs(fr.msgs, GetParameterType(h).type)

\* the handlers subscribed in registry object i
SubscribedIn(i) == InSomeBucket(subscribers[i])

\* C6: at most one registry object exists, every construction returns it, and
\* a subscription held by any object is held by the object of every reference.
C6_SingleInstance ==
  /\ Cardinality(instances) <= 1
  /\ \A t \in Threads : ref[t] # NoRef => ref[t] = singleton
  /\ \A fr \in Frames : fr.self # NoRef => fr.self = singleton
  /\ \A t \in Threads : \A i \in instances :
       ref[t] # NoRef => SubscribedIn(i) \subseteq SubscribedIn(ref[t])

\* C6 witness: a thread's publish invokes the handler that another thread's
\* subscribe, just returned, has added through its own reference.
C6_Witness ==
  \E t1 \in Threads, t2 \in Threads :
    /\ t1 # t2
    /\ Len(stack[t1]) = 1 /\ Len(stack[t2]) = 1
    /\ stack[t1][1].op = "subscribe" /\ stack[t1][1].pc = "returned"
    /\ stack[t2][1].op = "publish" /\ stack[t2][1].pc = "running"
    /\ stack[t2][1].cur = stack[t1][1].arg

\* C7: a subscription that was added stays in its bucket until unsubscribe
\* removes it; no construction resets the store.
C7_NoReinitialization ==
  \A p \in registered :
    p[1] \in Snapshot(subscribers[singleton], GetParameterType(p[1]).type, p[2])

\* C8: unsubscribe / unsubscribeReceiver of a handler that is not subscribed
\* raises nothing and leaves the store as it was.
C8_UnsubscribeAbsentNoop ==
  \A fr \in Frames :
    (fr.op \in {"unsubscribe", "unsubscribeReceiver"} /\ Finished(fr) /\ ~fr.wasSub)
      => (fr.pc = "returned" /\ ~fr.changed)

\* the handlers a call has invoked
Invoked(fr) == {fr.log[k][1] : k \in 1..Len(fr.log)}

\* C9: a publish that returns has run every handler of its snapshot to the
\* end, and driving a coroutine handler never fails, whatever the context.
C9_PublishWaits ==
  \A fr \in Frames :
    fr.op = "publish" =>
      /\ fr.pc = "returned" => Invoked(fr) = fr.snapAll
      /\ ~(fr.pc = "raised" /\ fr.exc = "RuntimeError" /\ ~fr.hraised)

\* C10: a batch_publish whose snapshot holds a coroutine handler, and in which
\* no handler raises, returns normally, has submitted one task per message of
\* the type for it, and has delivered every message to the synchronous handlers.
C10_BatchFireAndForget ==
  \A fr \in Frames :
    (/\ fr.op = "batch_publish"
     /\ EndedWithoutHandlerError(fr)
     /\ \E h \in fr.need : IsCoroutineFunction(h))
      => /\ fr.pc = "returned"
         /\ \A h \in fr.need :
              LET msgs == GroupMsgs(fr.msgs, GetParameterType(h).type)
              IN IF IsCoroutineFunction(h)
                   THEN ArgsOf(fr.tasks, h) = msgs /\ ArgsOf(fr.log, h) = <<>>
                   ELSE ArgsOf(fr.log, h) = msgs

\* the frame at position i of thread t's stack takes a handler's exception in
\* this step
TakesHandlerError(t, i) ==
  /\ i <= Len(stack[t]) /\ i <= Len(stack'[t])
  /\ ~stack[t][i].hraised
  /\ stack'[t][i].hraised

\* the frame at position i of thread t's stack is left alone or popped
Frozen(t, i) == i <= Len(stack'[t]) => stack'[t][i] = stack[t][i]

\* C11: when a handler raises during publish, the call ends with that
\* exception; the handlers of the snapshot not yet reached are not invoked,
\* then or later; the invocations made so far stay made; and the step leaves
\* the store as it was.
C11_PublishAbortsOnRaise ==
  [][\A t \in Threads : \A i \in 1..Len(stack[t]) :
       stack[t][i].op = "publish" =>
         /\ TakesHandlerError(t, i) =>
              /\ stack'[t][i].pc = "raised"
              /\ stack'[t][i].exc # None
              /\ stack'[t][i].log = stack[t][i].log
              /\ stack'[t][i].snap = stack[t][i].snap
              /\ Invoked(stack'[t][i]) \cap stack'[t][i].snap = {}
              /\ subscribers' = subscribers
              /\ subscriberSet' = subscriberSet
         /\ stack[t][i].hraised => Frozen(t, i)]_vars

\* C11 witness: a publish has ended with a handler's exception while a handler
\* of its snapshot had not been reached.
C11_Witness ==
  \E fr \in Frames :
    /\ fr.op = "publish"
    /\ fr.pc = "raised"
    /\ fr.hraised
    /\ fr.snap # {}
    /\ Invoked(fr) # {}

\* the handler a subscribe / subscribeReceiver frame asks to add
HandlerOfFrame(fr) == IF fr.op = "subscribeReceiver" THEN ReceiveOf(fr.arg) ELSE fr.arg

\* C12: a handler without exactly one annotated parameter is rejected by
\* subscribe / subscribeReceiver with the store unchanged; every handler in a
\* bucket has exactly one annotated parameter; and no publish fails because
\* of a handler's signature.
C12_SignatureChecked ==
  /\ \A fr \in Frames :
       (/\ fr.op \in {"subscribe", "subscribeReceiver"}
        /\ Finished(fr)
        /\ ~GetParameterType(HandlerOfFrame(fr)).ok)
         => (fr.pc = "raised" /\ ~fr.changed)
  /\ \A i \in InstIds : \A h \in SubscribedIn(i) :
       Len(Parameters(h)) = 1 /\ Parameters(h)[1] # Empty
  /\ \A fr \in Frames : fr.op = "publish" => fr.exc # "TypeError"

\* the (type, token) buckets of d that hold handler h
BucketsOf(d, h) ==
  {b \in UNION {{<<ty, tk>> : tk \in DOMAIN d[ty]} : ty \in DOMAIN d} : h \in d[b[1]][b[2]]}

\* C13: a handler callable (a function, or a receiver's bound receive method)
\* sits in at most one (type, token) bucket of the registry.
C13_OneBucketPerHandler ==
  \A i \in InstIds : \A h \in Callables : Cardinality(BucketsOf(subscribers[i], h)) <= 1

\* C14: routing is by exact type equality: publish and batch_publish never
\* invoke (or schedule) a handler whose declared type differs from the type of
\* the message, a base class of that type included.
C14_ExactTypeRouting ==
  \A fr \in Frames :
    Dispatching(fr) =>
      /\ \A k \in 1..Len(fr.log) : GetParameterType(fr.log[k][1]).type = TypeOf(fr.log[k][2])
      /\ \A k \in 1..Len(fr.tasks) :
           GetParameterType(fr.tasks[k][1]).type = TypeOf(fr.tasks[k][2])

\* C14 witness: a publish of a bool has returned without any invocation while
\* a handler declared for int (a base class of bool) sits under its token.
C14_Witness ==
  \E fr \in Frames :
    /\ fr.op = "publish"
    /\ fr.pc = "returned"
    /\ \E ty \in Bases(TypeOf(fr.msgs[1])) : Snapshot(subscribers[fr.self], ty, fr.tok) # {}
    /\ fr.log = <<>>

\* thread t is between the snapshot and the end of a dispatch loop, or in a
\* handler's own code
InDispatch(t) ==
  /\ Depth(t) > 0
  /\ Dispatching(Top(t))
  /\ Top(t).pc \in {"disp", "running"}

\* C15: a thread holds the store lock only inside a `with` block: never from
\* the snapshot on, while it dispatches or executes a handler.
C15_NoLockWhileDispatching ==
  \A t \in Threads :
    /\ InDispatch(t) => lock.owner # t
    /\ lock.owner = t => (Depth(t) > 0 /\ Top(t).pc \in {"body", "initbody"})

\* C15 witness: a handler is running on one thread while another thread is
\* inside a subscribe, unsubscribe or snapshot block, holding the lock.
C15_Witness ==
  \E t1 \in Threads, t2 \in Threads :
    /\ t1 # t2
    /\ InDispatch(t1) /\ Top(t1).pc = "running"
    /\ lock.owner = t2
    /\ Top(t2).op \in {"subscribe", "unsubscribe", "publish", "batch_publish"}

\* C16: the handlers a publish invokes are handlers of the snapshot it took
\* under the lock, whatever is subscribed or unsubscribed afterwards; and when
\* no handler raises, the call invokes every one of them.
C16_SnapshotThenDispatch ==
  \A fr \in Frames :
    fr.op = "publish" =>
      /\ Invoked(fr) \subseteq fr.snapAll
      /\ Invoked(fr) \cap fr.snap = {}
      /\ EndedWithoutHandlerError(fr) => Invoked(fr) = fr.snapAll

\* what a call has handed to handler h: invocations, then submitted tasks
Delivered(fr, h) == ArgsOf(fr.log, h) \o ArgsOf(fr.tasks, h)

\* C17: batch_publish takes one snapshot per distinct type, and (when no
\* handler raises) every message of the type is delivered to exactly the
\* handlers of that snapshot, whatever is subscribed or unsubscribed meanwhile.
C17_BatchSnapshotPerType ==
  \A fr \in Frames :
    fr.op = "batch_publish" =>
      /\ fr.gi <= Len(GroupTypes(fr.msgs)) \/ fr.msgs = <<>>
      /\ \A h \in Callables : h \notin fr.need => Delivered(fr, h) = <<>>
      /\ EndedWithoutHandlerError(fr) =>
           \A h \in fr.need : Delivered(fr, h) = GroupMsgs(fr.msgs, GetParameterType(h).type)

\* C18: when a synchronous handler raises during batch_publish, the call ends
\* with that very exception, and nothing more is invoked or scheduled by it:
\* not the remaining messages, handlers or type groups.
C18_BatchAbortsOnRaise ==
  [][\A t \in Threads : \A i \in 1..Len(stack[t]) :
       stack[t][i].op = "batch_publish" =>
         /\ TakesHandlerError(t, i) =>
              /\ stack'[t][i].pc = "raised"
              /\ IF i < Len(stack[t])
                   THEN stack'[t][i].exc = stack[t][i + 1].exc
                   ELSE stack'[t][i].exc \in {"HandlerError", "TypeError"}
              /\ stack'[t][i].log = stack[t][i].log
              /\ stack'[t][i].tasks = stack[t][i].tasks
         /\ stack[t][i].hraised => Frozen(t, i)]_vars

\* C18 witness: a batch_publish has ended with a handler's exception while a
\* message of the group, a handler of the snapshot and a type group were left.
C18_Witness ==
  \E fr \in Frames :
    /\ fr.op = "batch_publish"
    /\ fr.pc = "raised"
    /\ fr.hraised
    /\ fr.exc = "HandlerError"
    /\ fr.mi < Len(Group(fr))
    /\ fr.snap # {}
    /\ fr.gi < Len(GroupTypes(fr.msgs))

\* the handler callable that an entry of the identity set stands for
HandlerOfIdentity(x) == IF x \in Receivers THEN ReceiveOf(x) ELSE x

\* C19: the identity set and the buckets agree: the handlers that the
\* identities stand for are exactly the handlers that sit in some bucket.
C19_IdentitySetMatchesBuckets ==
  \A i \in InstIds : {HandlerOfIdentity(x) : x \in subscriberSet[i]} = SubscribedIn(i)

\* C20: under fair scheduling and with terminating handlers, every call a
\* thread is in (waiting for the lock included) eventually returns to the
\* application.
C20_EveryCallReturns ==
  \A t \in Threads : (Depth(t) > 0) ~> (Depth(t) = 0)

\* C20 witness: a call made from inside a handler waits for the store lock
\* while another thread holds it.
C20_Witness ==
  \E t1 \in Threads, t2 \in Threads :
    /\ t1 # t2
    /\ Depth(t1) = 2
    /\ Top(t1).pc = "lock"
    /\ lock.owner = t2

====
